---- MODULE Spec2Model ----
(***************************************************************************)
(* Ark<T>: an atomically reference-counted handle (src/src/main.rs).       *)
(*                                                                         *)
(* State: the heap cells (ArkVault: rc and value), the handles (Ark) each  *)
(* thread owns, and every thread's position inside the operation it runs.  *)
(* An Ark is nothing but its vault pointer, so the handles are kept as     *)
(* numbers: held[t][c] handles of cell c owned by thread t, of which       *)
(* mutb[t][c] are lent out as the &mut T that get_mut returned.            *)
(*                                                                         *)
(* Memory model.  The counter rc is one atomic location: every             *)
(* fetch_add, fetch_sub and load is one step on its current value.  The    *)
(* specification Spec takes every access to the payload as one step on     *)
(* its current value as well (weak = FALSE).  The specification MemSpec    *)
(* follows the orderings the code asks for (weak = TRUE): seen[t][c] says  *)
(* that every write to c's value happens-before thread t's current         *)
(* position.  A Release decrement publishes the dropping thread's view in  *)
(* rcRel[c] (all modifications of rc are read-modify-writes, so the        *)
(* release sequence is never broken); an atomic read of rc remembers the   *)
(* published view in acq[t], and an Acquire fence that follows joins it    *)
(* into seen[t].  A write makes every other view stale.  An access that    *)
(* is not ordered after every write (a data race), or an access to a       *)
(* freed cell, yields any outcome.                                         *)
(***************************************************************************)
EXTENDS Integers, Sequences, FiniteSets

\* ---------------------------------------------------------------- bounds
NThreads == 2       \* threads of the general specification
MaxHandles == 3     \* handles (Ark values) that exist at the same time
MaxCells == 1       \* heap cells (ArkVault allocations) ever made
RcBits == 3         \* width of the counter in the model (usize, scaled)

Threads == 1..NThreads
Cells == 1..MaxCells
Values == {0, 5}    \* payload values handed to Ark::new or written later
RcModulus == 2 ^ RcBits

VARIABLES
    rc,       \* rc[c]: ArkVault.rc, the atomic counter of cell c
    value,    \* value[c]: ArkVault.value, the payload of cell c
    alloc,    \* alloc[c]: cell c was allocated by Ark::new
    freed,    \* freed[c]: how many times the Box of cell c was freed
    rcRel,    \* rcRel[c]: the view published on rc covers every write
    ones,     \* ones[c]: how many decrements of c returned old_rc = 1
    held,     \* held[t][c]: handles of cell c that thread t owns
    mutb,     \* mutb[t][c]: those of them lent out as &mut T by get_mut
    pc,       \* pc[t]: position of thread t inside its current operation
    cur,      \* cur[t]: the cell of the handle the operation works on
    reg,      \* reg[t]: the local old_rc, resp. the value rc.load returned
    acq,      \* acq[t]: the view read with the last atomic access to rc
    seen,     \* seen[t][c]: every write to c's value happens-before t
    touched,  \* TRUE once any operation accessed a freed cell
    weak,     \* the orderings are followed (MemSpec); never changes
    lock,     \* lock[c]: holder of the payload's Mutex (demonstration)
    lockRel,  \* lockRel[c]: the view the last unlock published covers every write
    prog      \* prog[t]: position of t in its script (demonstration)

vars == <<rc, value, alloc, freed, rcRel, ones, held, mutb, pc, cur, reg,
          acq, seen, touched, weak, lock, lockRel, prog>>

cellVars == <<rc, value, alloc, freed, rcRel, ones>>
handleVars == <<held, mutb>>
threadVars == <<pc, cur, reg, acq>>
fixedVars == <<weak, lock, lockRel>>

\* ----------------------------------------------------------- helpers
\* Counters of events that must happen once are followed up to 2.
Min2(n) == IF n >= 2 THEN 2 ELSE n

RECURSIVE Sum(_, _)
Sum(f, S) == IF S = {} THEN 0 ELSE LET x == CHOOSE y \in S : TRUE IN f[x] + Sum(f, S \ {x})

\* The handles of cell c that exist: created and not yet decremented by drop.
LiveCount(c) == Sum([t \in DOMAIN held |-> held[t][c]], DOMAIN held)

\* All handles that exist.
HandleCount == Sum([c \in DOMAIN rc |-> LiveCount(c)], DOMAIN rc)

\* The drops of handles of c that have decremented and not yet returned.
Dropping(c) == {t \in DOMAIN pc : pc[t] \in {"drop", "drop_fenced"} /\ cur[t] = c}

\* Mutant: get_mut takes &self, so a lent handle can still be used.
UsableShared(t, c) == held[t][c]

\* The handles of c that thread t can use: owned and not lent out
\* (get_mut borrows its handle &mut for as long as the &mut T lives).
Usable(t, c) == held[t][c] - mutb[t][c]

\* Mutant: one vault for the whole process; Ark::new hands it out again.
SharedCell == CHOOSE c \in DOMAIN alloc : alloc[c] \/ \A d \in DOMAIN alloc : ~alloc[d] /\ c <= d

\* Box::into_raw(Box::new(..)): a fresh cell, never one handed out before.
FreshCell == CHOOSE c \in DOMAIN alloc : ~alloc[c] /\ \A d \in DOMAIN alloc : d < c => alloc[d]

\* Ark::vault(): the reference into the cell; it dangles once the cell is freed.
Touch(c) == touched \/ freed[c] > 0

\* ---------------------------------------------------- atomic primitives
\* ArkVault::new: rc: AtomicUsize::new(1)
InitialCount == 1

\* Mutant: the decrement is lost (a load and a store of the same value).
fetch_sub_lost(v) == v

\* Mutant: the increment is lost (a load and a store of the same value).
fetch_add_lost(v) == v

\* Mutant: the increment adds 2.
fetch_add_two(v) == (v + 2) % RcModulus

\* Mutant: the increment stops at the largest value.
fetch_add_saturating(v) == IF v = RcModulus - 1 THEN v ELSE v + 1

\* rc.fetch_add(1, Relaxed): the new counter value (usize wraps).
fetch_add(v) == (v + 1) % RcModulus

\* Mutant: the decrement takes 2.
fetch_sub_two(v) == (v + RcModulus - 2) % RcModulus

\* rc.fetch_sub(1, Release): the new counter value (usize wraps).
fetch_sub(v) == (v + RcModulus - 1) % RcModulus

\* Ordering::Release on the decrement: the view it publishes on rc.
ReleaseView(published, mine) == weak /\ (published \/ mine)

\* The view an atomic read of rc[c] finds published.
ReadView(c) == weak /\ rcRel[c]

\* Mutant: no fence; the thread keeps the view it had.
NoFence(mine, read) == weak /\ mine

\* fence(Ordering::Acquire) after an atomic read of rc: the view afterwards.
AcquireFence(mine, read) == weak /\ (mine \/ read)

\* Mutant: every drop takes itself for the last one.
IsLastAlways(old_rc) == old_rc >= 1

\* Mutant: the test is made on the count after the decrement.
IsLastPost(old_rc) == old_rc - 1 = 1

\* Mutant: the drop that leaves one handle behind frees as well.
IsLastPair(old_rc) == old_rc >= 1 /\ old_rc <= 2

\* drop: `if old_rc == 1`
IsLast(old_rc) == old_rc = 1

\* Mutant: the gate only asks for a live cell.
IsUniqueNonZero(loaded) == loaded # 0

\* Mutant: the gate tolerates one sibling.
IsUniqueOrPair(loaded) == loaded <= 2

\* Mutant: the gate is inverted.
IsUniqueInverted(loaded) == loaded # 1

\* get_mut: `if ark.vault().rc.load(Relaxed) == 1`
IsUnique(loaded) == loaded = 1

\* A write to c's value by thread t: only t's view covers it.
SeenAfterWrite(t, c) == [u \in DOMAIN seen |-> [seen[u] EXCEPT ![c] = weak /\ (u = t)]]

AcqAfterWrite(c) == [u \in DOMAIN acq |-> IF cur[u] = c THEN FALSE ELSE acq[u]]

\* Mutant: value_ref hands out the other field of the vault.
value_ref_rc(c) == rc[c]

\* ArkVault::value_ref, lines 27-29: &self.value.
value_ref(c) == value[c]

\* What a read of c's value by thread t may return: the value, when every
\* write happens-before the read; under a race, or on a freed cell, anything.
ReadResults(t, c, any) ==
    IF freed[c] = 0 /\ (weak => seen[t][c]) THEN {value_ref(c)} ELSE any

\* ------------------------------------------------------------ operations
\* Every operation below is a step of thread t; prog is left to the
\* specification that schedules the step.

\* Ark::new(value): allocate the vault with rc = 1 and return the handle.
Ark_new(t, v) ==
    /\ pc[t] = "idle"
    /\ \E c \in DOMAIN alloc : ~alloc[c]
    /\ HandleCount < MaxHandles
    /\ LET c == FreshCell
       IN /\ alloc' = [alloc EXCEPT ![c] = TRUE]
          /\ rc' = [rc EXCEPT ![c] = InitialCount]
          /\ value' = [value EXCEPT ![c] = v]
          /\ held' = [held EXCEPT ![t][c] = 1]
          /\ seen' = SeenAfterWrite(t, c)
    /\ UNCHANGED <<freed, rcRel, ones, mutb, threadVars, touched, fixedVars>>

\* clone, lines 80-86: rc.fetch_add(1, Relaxed) on self.vault(), then the new
\* Ark with a copy of the vault pointer.  Thread t clones a handle that
\* thread u owns: its own, or one it reaches through &Ark (Ark is Sync).
clone(t, u, c) ==
    /\ pc[t] = "idle"
    /\ u # t => pc[u] = "idle"
    /\ Usable(u, c) > 0
    /\ HandleCount < MaxHandles
    /\ touched' = Touch(c)
    /\ rc' = [rc EXCEPT ![c] = fetch_add(rc[c])]
    /\ held' = [held EXCEPT ![t][c] = held[t][c] + 1]
    /\ UNCHANGED <<value, alloc, freed, rcRel, ones, mutb, threadVars, seen, fixedVars>>

\* drop, line 94: old_rc = rc.fetch_sub(1, Release).
drop_fetch_sub(t, c) ==
    /\ pc[t] = "idle"
    /\ Usable(t, c) > 0
    /\ touched' = Touch(c)
    /\ reg' = [reg EXCEPT ![t] = rc[c]]
    /\ acq' = [acq EXCEPT ![t] = ReadView(c)]
    /\ rc' = [rc EXCEPT ![c] = fetch_sub(rc[c])]
    /\ rcRel' = [rcRel EXCEPT ![c] = ReleaseView(rcRel[c], seen[t][c])]
    /\ ones' = [ones EXCEPT ![c] = IF rc[c] = 1 THEN Min2(ones[c] + 1) ELSE ones[c]]
    /\ held' = [held EXCEPT ![t][c] = held[t][c] - 1]
    /\ pc' = [pc EXCEPT ![t] = "drop"]
    /\ cur' = [cur EXCEPT ![t] = c]
    /\ UNCHANGED <<value, alloc, freed, mutb, seen, fixedVars>>

\* Mutant: the last drop goes on to free the cell without the fence.
drop_nofence(t) ==
    /\ pc[t] = "drop"
    /\ IsLast(reg[t])
    /\ pc' = [pc EXCEPT ![t] = "drop_fenced"]
    /\ UNCHANGED <<cellVars, handleVars, cur, reg, acq, seen, touched, fixedVars>>

\* drop, lines 95-96: old_rc == 1, then fence(Acquire).
drop_fence(t) ==
    /\ pc[t] = "drop"
    /\ IsLast(reg[t])
    /\ seen' = [seen EXCEPT ![t][cur[t]] = AcquireFence(seen[t][cur[t]], acq[t])]
    /\ pc' = [pc EXCEPT ![t] = "drop_fenced"]
    /\ UNCHANGED <<cellVars, handleVars, cur, reg, acq, touched, fixedVars>>

\* drop, lines 99-101: drop(Box::from_raw(..)) destroys the value and frees
\* the cell: the value is gone, and so is every view of it.
drop_free(t) ==
    /\ pc[t] = "drop_fenced"
    /\ touched' = Touch(cur[t])
    /\ freed' = [freed EXCEPT ![cur[t]] = Min2(freed[cur[t]] + 1)]
    /\ value' = [value EXCEPT ![cur[t]] = 0]
    /\ rcRel' = [rcRel EXCEPT ![cur[t]] = FALSE]
    /\ seen' = [u \in DOMAIN seen |-> [seen[u] EXCEPT ![cur[t]] = FALSE]]
    /\ pc' = [pc EXCEPT ![t] = "idle"]
    /\ cur' = [cur EXCEPT ![t] = 0]
    /\ reg' = [reg EXCEPT ![t] = 0]
    /\ acq' = [acq EXCEPT ![t] = FALSE]
    /\ UNCHANGED <<rc, alloc, ones, handleVars, fixedVars>>

\* drop, lines 95 and 102: old_rc != 1, nothing more to do.
drop_return(t) ==
    /\ pc[t] = "drop"
    /\ ~IsLast(reg[t])
    /\ pc' = [pc EXCEPT ![t] = "idle"]
    /\ cur' = [cur EXCEPT ![t] = 0]
    /\ reg' = [reg EXCEPT ![t] = 0]
    /\ acq' = [acq EXCEPT ![t] = FALSE]
    /\ UNCHANGED <<cellVars, handleVars, seen, touched, fixedVars>>

\* Mutant: the load is made with a read-modify-write that counts the caller.
get_mut_load_counting(t, c) ==
    /\ pc[t] = "idle"
    /\ Usable(t, c) > 0
    /\ touched' = Touch(c)
    /\ reg' = [reg EXCEPT ![t] = rc[c]]
    /\ acq' = [acq EXCEPT ![t] = ReadView(c)]
    /\ rc' = [rc EXCEPT ![c] = fetch_add(rc[c])]
    /\ pc' = [pc EXCEPT ![t] = "get_mut"]
    /\ cur' = [cur EXCEPT ![t] = c]
    /\ UNCHANGED <<value, alloc, freed, rcRel, ones, handleVars, seen, fixedVars>>

\* get_mut, line 60: ark.vault().rc.load(Relaxed).  The handle is borrowed
\* &mut for the call, so it is neither lent out nor in use elsewhere.
get_mut_load(t, c) ==
    /\ pc[t] = "idle"
    /\ Usable(t, c) > 0
    /\ touched' = Touch(c)
    /\ reg' = [reg EXCEPT ![t] = rc[c]]
    /\ acq' = [acq EXCEPT ![t] = ReadView(c)]
    /\ pc' = [pc EXCEPT ![t] = "get_mut"]
    /\ cur' = [cur EXCEPT ![t] = c]
    /\ UNCHANGED <<cellVars, handleVars, seen, fixedVars>>

\* get_mut, lines 60-69: the count was 1: fence(Acquire), Some(&mut value).
get_mut_some(t) ==
    /\ pc[t] = "get_mut"
    /\ IsUnique(reg[t])
    /\ seen' = [seen EXCEPT ![t][cur[t]] = AcquireFence(seen[t][cur[t]], acq[t])]
    /\ mutb' = [mutb EXCEPT ![t][cur[t]] = mutb[t][cur[t]] + 1]
    /\ pc' = [pc EXCEPT ![t] = "idle"]
    /\ cur' = [cur EXCEPT ![t] = 0]
    /\ reg' = [reg EXCEPT ![t] = 0]
    /\ acq' = [acq EXCEPT ![t] = FALSE]
    /\ UNCHANGED <<cellVars, held, touched, fixedVars>>

\* Mutant: get_mut waits for the count to become 1 (it loads again).
get_mut_retry(t) ==
    /\ pc[t] = "get_mut"
    /\ ~IsUnique(reg[t])
    /\ reg' = [reg EXCEPT ![t] = rc[cur[t]]]
    /\ acq' = [acq EXCEPT ![t] = ReadView(cur[t])]
    /\ UNCHANGED <<cellVars, handleVars, pc, cur, seen, touched, fixedVars>>

\* get_mut, lines 70-72: the count was not 1: None.
get_mut_none(t) ==
    /\ pc[t] = "get_mut"
    /\ ~IsUnique(reg[t])
    /\ pc' = [pc EXCEPT ![t] = "idle"]
    /\ cur' = [cur EXCEPT ![t] = 0]
    /\ reg' = [reg EXCEPT ![t] = 0]
    /\ acq' = [acq EXCEPT ![t] = FALSE]
    /\ UNCHANGED <<cellVars, handleVars, seen, touched, fixedVars>>

\* A write through the &mut T that get_mut returned (line 67).
write_mut(t, c, w) ==
    /\ pc[t] = "idle"
    /\ mutb[t][c] > 0
    /\ touched' = Touch(c)
    /\ value' = [value EXCEPT ![c] = w]
    /\ seen' = SeenAfterWrite(t, c)
    /\ rcRel' = [rcRel EXCEPT ![c] = FALSE]
    /\ acq' = AcqAfterWrite(c)
    /\ UNCHANGED <<rc, alloc, freed, ones, handleVars, pc, cur, reg, fixedVars>>

\* A read through the &mut T that get_mut returned (line 67).
read_mut(t, c) ==
    /\ pc[t] = "idle"
    /\ mutb[t][c] > 0
    /\ touched' = Touch(c)
    /\ UNCHANGED <<cellVars, handleVars, threadVars, seen, fixedVars>>

\* The borrow of the &mut T ends; the handle can be used again.
release_mut(t, c) ==
    /\ pc[t] = "idle"
    /\ mutb[t][c] > 0
    /\ mutb' = [mutb EXCEPT ![t][c] = mutb[t][c] - 1]
    /\ UNCHANGED <<cellVars, held, threadVars, seen, touched, fixedVars>>

\* deref, lines 111-113: self.vault().value_ref(), and a read of the value.
deref(t, c) ==
    /\ pc[t] = "idle"
    /\ Usable(t, c) > 0
    /\ touched' = Touch(c)
    /\ UNCHANGED <<cellVars, handleVars, threadVars, seen, fixedVars>>

\* deref, then a write through &T by the payload's own synchronisation
\* (T: Sync, e.g. an atomic or the Mutex of main).
write_shared(t, c, w) ==
    /\ pc[t] = "idle"
    /\ Usable(t, c) > 0
    /\ touched' = Touch(c)
    /\ value' = [value EXCEPT ![c] = w]
    /\ seen' = SeenAfterWrite(t, c)
    /\ rcRel' = [rcRel EXCEPT ![c] = FALSE]
    /\ acq' = AcqAfterWrite(c)
    /\ UNCHANGED <<rc, alloc, freed, ones, handleVars, pc, cur, reg, fixedVars>>

\* Ark<T>: Send.  One handle of c moves from t to u (thread spawn, channel);
\* the transfer orders everything t did before the receiver.
send(t, c, u) ==
    /\ t # u
    /\ pc[t] = "idle"
    /\ pc[u] = "idle"
    /\ Usable(t, c) > 0
    /\ held' = [held EXCEPT ![t][c] = held[t][c] - 1, ![u][c] = held[u][c] + 1]
    /\ seen' = [seen EXCEPT ![u] = [d \in DOMAIN alloc |-> weak /\ (seen[u][d] \/ seen[t][d])]]
    /\ UNCHANGED <<cellVars, mutb, threadVars, touched, fixedVars>>

\* ------------------------------------------- the general specification
\* Any number of threads create, clone, move, use and drop handles.
InitWith(T, C, w, p) ==
    /\ rc = [c \in C |-> 0]
    /\ value = [c \in C |-> 0]
    /\ alloc = [c \in C |-> FALSE]
    /\ freed = [c \in C |-> 0]
    /\ rcRel = [c \in C |-> FALSE]
    /\ ones = [c \in C |-> 0]
    /\ held = [t \in T |-> [c \in C |-> 0]]
    /\ mutb = [t \in T |-> [c \in C |-> 0]]
    /\ pc = [t \in T |-> "idle"]
    /\ cur = [t \in T |-> 0]
    /\ reg = [t \in T |-> 0]
    /\ acq = [t \in T |-> FALSE]
    /\ seen = [t \in T |-> [c \in C |-> FALSE]]
    /\ touched = FALSE
    /\ weak = w
    /\ lock = [c \in C |-> "free"]
    /\ lockRel = [c \in C |-> FALSE]
    /\ prog = [t \in T |-> p]

Init == InitWith(Threads, Cells, FALSE, "start")

New == \E t \in DOMAIN pc, v \in Values : Ark_new(t, v) /\ UNCHANGED prog
Clone == \E t \in DOMAIN pc, c \in DOMAIN rc : clone(t, t, c) /\ UNCHANGED prog
DropFetchSub == \E t \in DOMAIN pc, c \in DOMAIN rc : drop_fetch_sub(t, c) /\ UNCHANGED prog
DropFence == \E t \in DOMAIN pc : drop_fence(t) /\ UNCHANGED prog
DropFree == \E t \in DOMAIN pc : drop_free(t) /\ UNCHANGED prog
DropReturn == \E t \in DOMAIN pc : drop_return(t) /\ UNCHANGED prog
GetMutLoad == \E t \in DOMAIN pc, c \in DOMAIN rc : get_mut_load(t, c) /\ UNCHANGED prog
GetMutSome == \E t \in DOMAIN pc : get_mut_some(t) /\ UNCHANGED prog
GetMutNone == \E t \in DOMAIN pc : get_mut_none(t) /\ UNCHANGED prog
WriteMut == \E t \in DOMAIN pc, c \in DOMAIN rc, w \in Values : write_mut(t, c, w) /\ UNCHANGED prog
ReadMut == \E t \in DOMAIN pc, c \in DOMAIN rc : read_mut(t, c) /\ UNCHANGED prog
ReleaseMut == \E t \in DOMAIN pc, c \in DOMAIN rc : release_mut(t, c) /\ UNCHANGED prog
Deref == \E t \in DOMAIN pc, c \in DOMAIN rc : deref(t, c) /\ UNCHANGED prog
WriteShared == \E t \in DOMAIN pc, c \in DOMAIN rc, w \in Values : write_shared(t, c, w) /\ UNCHANGED prog
Send == \E t \in DOMAIN pc, c \in DOMAIN rc, u \in DOMAIN pc : send(t, c, u) /\ UNCHANGED prog

Next ==
    \/ New
    \/ Clone
    \/ DropFetchSub
    \/ DropFence
    \/ DropFree
    \/ DropReturn
    \/ GetMutLoad
    \/ GetMutSome
    \/ GetMutNone
    \/ WriteMut
    \/ ReadMut
    \/ ReleaseMut
    \/ Deref
    \/ WriteShared
    \/ Send

Spec == Init /\ [][Next]_vars

\* ------------------------------------------------------- two cells
\* The same operations with two cells to allocate.
PairCells == {1, 2}

PairInit == InitWith(Threads, PairCells, FALSE, "start")

PairSpec == PairInit /\ [][Next]_vars

\* ------------------------------------------------- fair scheduling
\* The steps of thread t that continue the operation it has started.
OwnStep(t) ==
    /\ \/ drop_fence(t)
       \/ drop_free(t)
       \/ drop_return(t)
       \/ get_mut_some(t)
       \/ get_mut_none(t)
    /\ UNCHANGED prog

\* A thread that is inside an operation is scheduled again; whether a thread
\* ever starts an operation is left open.
FairInit == InitWith(Threads, {1}, FALSE, "start")

FairSpec == FairInit /\ [][Next]_vars /\ \A t \in Threads : WF_vars(OwnStep(t))

\* How far into its operation a thread is.
Rank(p) == IF p = "idle" THEN 0 ELSE IF p = "drop_fenced" THEN 2 ELSE 1

\* ------------------------------------- the specification with orderings
\* The same operations on one cell, with the views of its payload followed.
MemInit == InitWith(Threads, {1}, TRUE, "start")

MemSpec == MemInit /\ [][Next]_vars

\* ------------------------------------------------ the demonstration
\* main, lines 116-135: one handle around Mutex<Vec>, two clones, each moved
\* to a scoped thread that locks the Mutex and pushes one number.
MainThreads == {"main", "first", "second"}
Spawned == {"first", "second"}

\* The only cell of main: the one its Ark::new allocates.
TheCell == 1

\* Mutex::lock is an acquire of what the last unlock released.
MutexAcquire(mine, released) == weak /\ (mine \/ released)

\* The MutexGuard's drop is a release.
MutexRelease(released, mine) == weak /\ (released \/ mine)

\* Lines 124 and 129: push(42), push(17).
Pushed == [t \in Spawned |-> IF t = "first" THEN 42 ELSE 17]

\* What a Vec read from freed memory may hold.
AnyVec == {<<>>, <<42>>, <<17>>, <<42, 17>>, <<17, 42>>}

Contains(vec, x) == \E i \in 1..Len(vec) : vec[i] = x

Finished(t) == prog[t] = "exit" /\ pc[t] = "idle"

MainInit == InitWith(MainThreads, {TheCell}, TRUE, "start")

\* Line 118: let v = Ark::new(Mutex::new(vec![])).
MainNew ==
    /\ prog["main"] = "start"
    /\ Ark_new("main", <<>>)
    /\ prog' = [prog EXCEPT !["main"] = "clone_first"]

\* Line 121: let first = v.clone().
MainCloneFirst ==
    /\ prog["main"] = "clone_first"
    /\ clone("main", "main", TheCell)
    /\ prog' = [prog EXCEPT !["main"] = "spawn_first"]

\* Lines 123-125: scope.spawn(move || ..) moves first to its thread.
MainSpawnFirst ==
    /\ prog["main"] = "spawn_first"
    /\ send("main", TheCell, "first")
    /\ prog' = [prog EXCEPT !["main"] = "clone_second", !["first"] = "deref"]

\* Line 127: let second = v.clone().
MainCloneSecond ==
    /\ prog["main"] = "clone_second"
    /\ clone("main", "main", TheCell)
    /\ prog' = [prog EXCEPT !["main"] = "spawn_second"]

\* Lines 128-130: scope.spawn(move || ..) moves second to its thread.
MainSpawnSecond ==
    /\ prog["main"] = "spawn_second"
    /\ send("main", TheCell, "second")
    /\ prog' = [prog EXCEPT !["main"] = "join", !["second"] = "deref"]

\* Lines 124, 129: first.lock() starts with deref (lines 111-113).
ThreadDeref(t) ==
    /\ prog[t] = "deref"
    /\ deref(t, TheCell)
    /\ prog' = [prog EXCEPT ![t] = "lock"]

\* Lines 124, 129: Mutex::lock returns once the Mutex is free.
ThreadLock(t) ==
    /\ prog[t] = "lock"
    /\ lock[TheCell] = "free"
    /\ lock' = [lock EXCEPT ![TheCell] = t]
    /\ seen' = [seen EXCEPT ![t][TheCell] = MutexAcquire(seen[t][TheCell], lockRel[TheCell])]
    /\ prog' = [prog EXCEPT ![t] = "push"]
    /\ UNCHANGED <<cellVars, handleVars, threadVars, touched, weak, lockRel>>

\* Lines 124, 129: .push(42), .push(17) through the MutexGuard.  A push into
\* freed memory is lost.
ThreadPush(t) ==
    /\ prog[t] = "push"
    /\ lock[TheCell] = t
    /\ touched' = Touch(TheCell)
    /\ value' = [value EXCEPT ![TheCell] = IF freed[TheCell] = 0 THEN Append(value[TheCell], Pushed[t]) ELSE value[TheCell]]
    /\ seen' = SeenAfterWrite(t, TheCell)
    /\ rcRel' = [rcRel EXCEPT ![TheCell] = FALSE]
    /\ lockRel' = [lockRel EXCEPT ![TheCell] = FALSE]
    /\ acq' = AcqAfterWrite(TheCell)
    /\ prog' = [prog EXCEPT ![t] = "unlock"]
    /\ UNCHANGED <<rc, alloc, freed, ones, handleVars, pc, cur, reg, weak, lock>>

\* Lines 124, 129: the MutexGuard is dropped at the end of the statement.
ThreadUnlock(t) ==
    /\ prog[t] = "unlock"
    /\ lock[TheCell] = t
    /\ lock' = [lock EXCEPT ![TheCell] = "free"]
    /\ lockRel' = [lockRel EXCEPT ![TheCell] = MutexRelease(lockRel[TheCell], seen[t][TheCell])]
    /\ prog' = [prog EXCEPT ![t] = "drop"]
    /\ UNCHANGED <<cellVars, handleVars, threadVars, seen, touched, weak>>

\* Lines 125, 130: the closure ends and drops the handle it captured.
ThreadDrop(t) ==
    /\ prog[t] = "drop"
    /\ drop_fetch_sub(t, TheCell)
    /\ prog' = [prog EXCEPT ![t] = "exit"]

\* The end of a joined thread happens-before the return of the join.
Joined(mine, theirs) == weak /\ (mine \/ TRUE \in theirs)

\* Line 131: thread::scope returns once every spawned thread has finished.
MainJoin ==
    /\ prog["main"] = "join"
    /\ \A t \in Spawned : Finished(t)
    /\ seen' = [seen EXCEPT !["main"] = [c \in DOMAIN alloc |-> Joined(seen["main"][c], {seen[t][c] : t \in Spawned})]]
    /\ prog' = [prog EXCEPT !["main"] = "assert17"]
    /\ UNCHANGED <<cellVars, handleVars, threadVars, touched, fixedVars>>

\* Lines 133-134: v.lock(): deref, then the Mutex is taken.
MainLock(at, then) ==
    /\ prog["main"] = at
    /\ pc["main"] = "idle"
    /\ Usable("main", TheCell) > 0
    /\ touched' = Touch(TheCell)
    /\ lock[TheCell] = "free"
    /\ lock' = [lock EXCEPT ![TheCell] = "main"]
    /\ seen' = [seen EXCEPT !["main"][TheCell] = MutexAcquire(seen["main"][TheCell], lockRel[TheCell])]
    /\ prog' = [prog EXCEPT !["main"] = then]
    /\ UNCHANGED <<cellVars, handleVars, threadVars, weak, lockRel>>

\* Lines 133-134: .contains(&x): the read through the MutexGuard.
MainContains(at, x, found, missing) ==
    /\ prog["main"] = at
    /\ lock[TheCell] = "main"
    /\ touched' = Touch(TheCell)
    /\ \E vec \in ReadResults("main", TheCell, AnyVec) :
          prog' = [prog EXCEPT !["main"] = IF Contains(vec, x) THEN found ELSE missing]
    /\ UNCHANGED <<cellVars, handleVars, threadVars, seen, fixedVars>>

\* Lines 133-134: the MutexGuard is dropped, then assert! passes or panics.
MainAssert(found, missing, then) ==
    /\ prog["main"] \in {found, missing}
    /\ lock[TheCell] = "main"
    /\ lock' = [lock EXCEPT ![TheCell] = "free"]
    /\ lockRel' = [lockRel EXCEPT ![TheCell] = MutexRelease(lockRel[TheCell], seen["main"][TheCell])]
    /\ prog' = [prog EXCEPT !["main"] = IF prog["main"] = found THEN then ELSE "panic"]
    /\ UNCHANGED <<cellVars, handleVars, threadVars, seen, touched, weak>>

MainLock17 == MainLock("assert17", "check17")

MainContains17 == MainContains("check17", 17, "found17", "missing17")

MainAssert17 == MainAssert("found17", "missing17", "assert42")

MainLock42 == MainLock("assert42", "check42")

MainContains42 == MainContains("check42", 42, "found42", "missing42")

MainAssert42 == MainAssert("found42", "missing42", "drop")

\* Line 135: main ends and drops v.
MainDrop ==
    /\ prog["main"] = "drop"
    /\ drop_fetch_sub("main", TheCell)
    /\ prog' = [prog EXCEPT !["main"] = "exit"]

ThreadDerefs == \E t \in Spawned : ThreadDeref(t)
ThreadLocks == \E t \in Spawned : ThreadLock(t)
ThreadPushes == \E t \in Spawned : ThreadPush(t)
ThreadUnlocks == \E t \in Spawned : ThreadUnlock(t)
ThreadDrops == \E t \in Spawned : ThreadDrop(t)

MainNext ==
    \/ MainNew
    \/ MainCloneFirst
    \/ MainSpawnFirst
    \/ MainCloneSecond
    \/ MainSpawnSecond
    \/ ThreadDerefs
    \/ ThreadLocks
    \/ ThreadPushes
    \/ ThreadUnlocks
    \/ ThreadDrops
    \/ MainJoin
    \/ MainLock17
    \/ MainContains17
    \/ MainAssert17
    \/ MainLock42
    \/ MainContains42
    \/ MainAssert42
    \/ MainDrop
    \/ DropFence
    \/ DropFree
    \/ DropReturn

MainSpec == MainInit /\ [][MainNext]_vars

\* ------------------------------------------------------ the stress run
\* One handle stays with thread 0; each of the threads 1..NThreads clones it
\* through &Ark and drops the clone, StressRounds times over.
StressRounds == 3

Workers == 1..NThreads

\* prog[t] counts the rounds thread t has started to end.
StressInit == InitWith(0..NThreads, {TheCell}, FALSE, 0)

\* let a = Ark::new(..), before the threads are spawned.
StressNew ==
    /\ ~alloc[TheCell]
    /\ \E v \in Values : Ark_new(0, v)
    /\ UNCHANGED prog

\* let c = a.clone()
StressClone(t) ==
    /\ alloc[TheCell]
    /\ prog[t] < StressRounds
    /\ held[t][TheCell] = 0
    /\ clone(t, 0, TheCell)
    /\ UNCHANGED prog

\* drop(c): the round is over once drop has returned.
StressDrop(t) ==
    /\ held[t][TheCell] = 1
    /\ drop_fetch_sub(t, TheCell)
    /\ prog' = [prog EXCEPT ![t] = prog[t] + 1]

StressClones == \E t \in Workers : StressClone(t)
StressDrops == \E t \in Workers : StressDrop(t)

StressNext ==
    \/ StressNew
    \/ StressClones
    \/ StressDrops
    \/ DropReturn

StressSpec == StressInit /\ [][StressNext]_vars

StressDone == \A t \in Workers : prog[t] = StressRounds /\ pc[t] = "idle"

\* ------------------------------------------------- leaked handles
\* Handles of one cell are cloned and leaked (std::mem::forget): a leaked
\* handle is never dropped, so it stays counted and takes no memory, which is
\* how a count gets to the largest value of its width.  Here prog[t] counts
\* the handles thread t has leaked.  One thread is enough to get there.
WrapInit == InitWith({"main"}, {TheCell}, FALSE, 0)

\* The handles that were leaked.
Forgotten == Sum(prog, DOMAIN prog)

\* The handles of c that were made and never dropped.
Outstanding(c) == LiveCount(c) + Forgotten

\* std::mem::forget(a): the handle is gone, its drop never runs.
WrapForget ==
    \E t \in DOMAIN pc, c \in DOMAIN rc :
        /\ pc[t] = "idle"
        /\ Usable(t, c) > 0
        /\ Forgotten < RcModulus
        /\ held' = [held EXCEPT ![t][c] = held[t][c] - 1]
        /\ prog' = [prog EXCEPT ![t] = prog[t] + 1]
        /\ UNCHANGED <<cellVars, mutb, threadVars, seen, touched, fixedVars>>

WrapNext ==
    \/ New
    \/ Clone
    \/ WrapForget
    \/ DropFetchSub
    \/ DropFence
    \/ DropFree
    \/ DropReturn

WrapSpec == WrapInit /\ [][WrapNext]_vars

\* --------------------------------------------------- the round trip
\* Handles of one cell are made, cloned, moved, dereferenced and dropped, and
\* get_mut is called, but nothing is written to the payload.  Here prog[t]
\* keeps what thread t gave to Ark::new and what its derefs returned.
RoundTripInit == InitWith(Threads, {TheCell}, TRUE, [given |-> {}, got |-> {}])

\* let a = Ark::new(v)
RoundNew ==
    \E t \in DOMAIN pc, v \in Values :
        /\ Ark_new(t, v)
        /\ prog' = [prog EXCEPT ![t].given = {v}]

\* let r = *a (lines 111-113): the value read through the reference.
RoundDeref ==
    \E t \in DOMAIN pc, c \in DOMAIN rc :
        /\ deref(t, c)
        /\ \E r \in ReadResults(t, c, Values) :
              prog' = [prog EXCEPT ![t].got = prog[t].got \cup {r}]

RoundTripNext ==
    \/ RoundNew
    \/ RoundDeref
    \/ Clone
    \/ Send
    \/ DropFetchSub
    \/ DropFence
    \/ DropFree
    \/ DropReturn
    \/ GetMutLoad
    \/ GetMutSome
    \/ GetMutNone
    \/ ReleaseMut

RoundTripSpec == RoundTripInit /\ [][RoundTripNext]_vars

\* The values that were given to Ark::new.
Given == UNION {prog[t].given : t \in DOMAIN prog}

\* ------------------------------------------------------------- claims
\* The &mut T references to c's value that are outstanding.
MutRefs(c) == Sum([t \in DOMAIN mutb |-> mutb[t][c]], DOMAIN mutb)

\* C1: single reclamation.  A cell is never freed twice, at most one
\* decrement of its counter returns 1, the cell is freed only by a drop that
\* saw 1, and once every handle of the cell has been dropped (none exists
\* and no drop is still running) the cell has been freed exactly once.
C1_SingleReclamation ==
    \A c \in DOMAIN rc :
        /\ freed[c] <= 1
        /\ ones[c] <= 1
        /\ freed[c] = 1 => ones[c] = 1
        /\ (alloc[c] /\ LiveCount(c) = 0 /\ Dropping(c) = {}) => (freed[c] = 1 /\ ones[c] = 1)

\* The cell was freed by the drop that saw 1 while the drop of a sibling,
\* which saw 2, has not returned yet.
C1_Witness ==
    \E c \in DOMAIN rc, t \in DOMAIN pc :
        /\ freed[c] = 1 /\ ones[c] = 1 /\ LiveCount(c) = 0
        /\ pc[t] = "drop" /\ cur[t] = c /\ reg[t] = 2

\* C2: no premature reclamation.  While a handle of a cell exists the cell
\* has not been freed, and no operation ever accessed a freed cell.
C2_NoPrematureReclamation ==
    /\ \A c \in DOMAIN rc : LiveCount(c) > 0 => freed[c] = 0
    /\ ~touched

\* One of two handles has been dropped (its decrement saw 2), the other one
\* still exists.
C2_Witness ==
    \E c \in DOMAIN rc, t \in DOMAIN pc :
        /\ pc[t] = "drop" /\ cur[t] = c /\ reg[t] = 2
        /\ LiveCount(c) = 1 /\ rc[c] = 1

\* C3: count invariant.  The counter of every cell equals the number of
\* handles of the cell that exist (a handle exists from the increment of the
\* clone that makes it to the decrement of its drop).
C3_CountInvariant ==
    \A c \in DOMAIN rc : rc[c] = LiveCount(c)

\* Three handles were made and one of them has been dropped.
C3_Witness ==
    \E c \in DOMAIN rc, t \in DOMAIN pc :
        /\ pc[t] = "drop" /\ cur[t] = c /\ reg[t] = 3
        /\ rc[c] = 2

\* A call of get_mut by thread t starts: the load.
GetMutCalled(t) == pc[t] = "idle" /\ pc'[t] = "get_mut"

\* A call of get_mut by thread t returns.
GetMutReturned(t) == pc[t] = "get_mut" /\ pc'[t] = "idle"

\* The call that returns hands out a &mut T.
ReturnedSome(t) == mutb'[t][cur[t]] = mutb[t][cur[t]] + 1

\* The call that returns hands out nothing.
ReturnedNone(t) == mutb' = mutb

\* C4: exclusivity gate.  The count get_mut loads is the number of handles
\* of the cell that exist when it loads, and the call returns Some if and
\* only if that number is 1 (None otherwise).
C4_ExclusivityGate ==
    [][\A t \in DOMAIN pc :
          /\ GetMutCalled(t) => reg'[t] = LiveCount(cur'[t])
          /\ GetMutReturned(t) => /\ ReturnedSome(t) <=> reg[t] = 1
                                  /\ ReturnedNone(t) <=> reg[t] # 1]_vars

\* get_mut has returned Some.
C4_Witness ==
    \E c \in DOMAIN rc, t \in DOMAIN pc : mutb[t][c] = 1 /\ LiveCount(c) = 1

\* C5: no two &mut T to the value of one cell are outstanding.
C5_NoTwoMutRefs ==
    \A c \in DOMAIN rc : MutRefs(c) <= 1

\* Two threads, each with its own handle of the same cell, are inside get_mut.
C5_Witness ==
    \E t \in DOMAIN pc, u \in DOMAIN pc :
        /\ t # u
        /\ pc[t] = "get_mut" /\ pc[u] = "get_mut" /\ cur[t] = cur[u]
        /\ held[t][cur[t]] > 0 /\ held[u][cur[u]] > 0

\* C6: exclusive while granted.  While a &mut T is outstanding, the count is
\* 1, the lent handle is the only handle of the cell, the cell is not freed
\* and no thread is about to free it.
C6_ExclusiveWhileGranted ==
    \A c \in DOMAIN rc, t \in DOMAIN pc :
        mutb[t][c] > 0 =>
            /\ rc[c] = 1
            /\ LiveCount(c) = 1
            /\ held[t][c] = 1
            /\ freed[c] = 0
            /\ \A u \in DOMAIN pc : cur[u] = c => (pc[u] = "drop" /\ ~IsLast(reg[u]))

\* A &mut T is outstanding and was written through, while the drop of a
\* sibling handle has not returned yet.
C6_Witness ==
    \E c \in DOMAIN rc, t \in DOMAIN pc, u \in DOMAIN pc :
        /\ mutb[t][c] = 1
        /\ pc[u] = "drop" /\ cur[u] = c

\* C7: visibility across drop.  Every read through a &mut T that get_mut
\* handed out returns the last value written to the payload, whoever wrote it.
C7_VisibilityAcrossDrop ==
    \A c \in DOMAIN rc, t \in DOMAIN pc :
        mutb[t][c] > 0 => ReadResults(t, c, Values) = {value[c]}

\* get_mut has loaded the count 1; the last write to the payload was made by
\* another thread, whose Release decrement published it; the fence is next.
C7_Witness ==
    \E t \in DOMAIN pc :
        /\ pc[t] = "get_mut" /\ reg[t] = 1
        /\ ~seen[t][cur[t]] /\ acq[t]

\* C8: demonstration outcome.  No assertion of main fails; and when main is
\* at its assertions, both threads have finished and every list it can read
\* through v holds both 42 and 17.
C8_DemonstrationOutcome ==
    /\ prog["main"] \notin {"missing17", "missing42", "panic"}
    /\ prog["main"] \in {"assert17", "check17", "found17", "assert42", "check42", "found42", "drop"} =>
          /\ \A t \in Spawned : Finished(t)
          /\ \A vec \in ReadResults("main", TheCell, AnyVec) : Contains(vec, 42) /\ Contains(vec, 17)

\* Both assertions have passed on a list in which 17 was pushed first.
C8_Witness ==
    /\ prog["main"] = "drop"
    /\ value[TheCell] = <<17, 42>>

\* C9: stress property.  The cell is never freed and no decrement returns 1
\* while the threads run, and once every thread has done all its rounds the
\* count is what it was before they started: 1, the one handle that is left.
C9_StressProperty ==
    /\ freed[TheCell] = 0 /\ ones[TheCell] = 0 /\ ~touched
    /\ StressDone => (rc[TheCell] = 1 /\ LiveCount(TheCell) = 1 /\ held[0][TheCell] = 1)

\* Every thread has finished its rounds.
C9_Witness ==
    /\ StressDone
    /\ alloc[TheCell]
    /\ rc[TheCell] = 1

\* C10: idempotence of absence.  A call of get_mut that starts while the
\* count is above 1 returns None and one that starts while it is 1 returns
\* Some; a call changes no counter, so a repeated call finds what the one
\* before found unless a handle was cloned or dropped in between; and a
\* count of 1 only changes by the owner of the last handle cloning or
\* dropping it.
C10_IdempotenceOfAbsence ==
    [][\A t \in DOMAIN pc :
          /\ GetMutCalled(t) => reg'[t] = rc[cur'[t]]
          /\ (GetMutReturned(t) /\ reg[t] > 1) => ReturnedNone(t)
          /\ (GetMutReturned(t) /\ reg[t] = 1) => ReturnedSome(t)
          /\ (GetMutCalled(t) \/ GetMutReturned(t)) => (rc' = rc /\ held' = held)
          /\ \A c \in DOMAIN rc :
                (rc[c] = 1 /\ held[t][c] = 1 /\ rc'[c] # 1) =>
                    \/ rc'[c] = 2 /\ held'[t][c] = 2
                    \/ rc'[c] = 0 /\ held'[t][c] = 0 /\ pc'[t] = "drop"]_vars

\* The drop of a sibling brought the count to 1, and a call of get_mut made
\* afterwards has loaded 1.
C10_Witness ==
    \E t \in DOMAIN pc, u \in DOMAIN pc :
        /\ pc[t] = "get_mut" /\ reg[t] = 1
        /\ pc[u] = "drop" /\ cur[u] = cur[t] /\ reg[u] = 2

\* C11: round trip.  As long as nothing writes to the payload, every deref,
\* through the handle Ark::new returned or through any clone of it, on any
\* thread and after any clones and drops, returns the value given to Ark::new.
C11_RoundTrip ==
    /\ \A t \in DOMAIN prog : prog[t].got \subseteq Given
    /\ \A t \in DOMAIN pc, c \in DOMAIN rc :
          Usable(t, c) > 0 => ReadResults(t, c, Values) \subseteq Given

\* A thread that did not make the cell has read 5, the value given to
\* Ark::new, through a clone, after a sibling handle was dropped.
C11_Witness ==
    \E t \in DOMAIN pc, u \in DOMAIN pc :
        /\ t # u
        /\ prog[t].given = {5} /\ prog[u].got = {5}
        /\ Usable(u, TheCell) > 0
        /\ \E w \in DOMAIN pc : pc[w] = "drop" /\ reg[w] = 2

\* A step is a clone of a handle of c: one more handle of c exists, and the
\* cell is not a new one.
IsCloneOf(c) == alloc[c] /\ held' # held /\ LiveCount(c)' = LiveCount(c) + 1

\* C12: clone effect.  A clone of a handle of c raises c's counter by exactly
\* 1 and gives the cloning thread one more handle of c; the value, the
\* allocation and freed status, every other handle (the cloned one included),
\* every outstanding &mut T and every other cell stay as they were, and all
\* handles of c read the same value.
C12_CloneEffect ==
    [][\A c \in DOMAIN rc :
          IsCloneOf(c) =>
              /\ rc'[c] = rc[c] + 1
              /\ \A d \in DOMAIN rc \ {c} : rc'[d] = rc[d]
              /\ value' = value /\ alloc' = alloc /\ freed' = freed
              /\ mutb' = mutb /\ pc' = pc
              /\ \E t \in DOMAIN pc :
                    held' = [held EXCEPT ![t][c] = held[t][c] + 1]
              /\ \A t \in DOMAIN pc, u \in DOMAIN pc :
                    (Usable(t, c)' > 0 /\ Usable(u, c)' > 0) =>
                        ReadResults(t, c, Values)' = ReadResults(u, c, Values)']_vars

\* A thread holds a handle and its clone: the count is 2, the value is the
\* one given to Ark::new.
C12_Witness ==
    \E c \in DOMAIN rc, t \in DOMAIN pc :
        /\ held[t][c] = 2 /\ rc[c] = 2
        /\ value[c] = 5 /\ freed[c] = 0

\* C13: non-blocking completion.  Ark::new and clone are one step.  A thread
\* inside drop or get_mut can always take its next step, whatever the others
\* do; each of its steps takes it further or ends the operation, so the
\* operation ends after at most 3 steps; no other thread moves it; and when
\* the thread is scheduled fairly the operation does end.
C13_NonBlockingCompletion ==
    /\ [](\A t \in DOMAIN pc : pc[t] # "idle" => ENABLED OwnStep(t))
    /\ [][\A t \in DOMAIN pc :
             pc'[t] # pc[t] =>
                 /\ pc'[t] = "idle" \/ Rank(pc'[t]) > Rank(pc[t])
                 /\ \A u \in DOMAIN pc \ {t} : pc'[u] = pc[u]]_vars
    /\ \A t \in Threads : (pc[t] # "idle") ~> (pc[t] = "idle")

\* A thread is inside get_mut with a count of 2 loaded while another thread
\* is inside the drop of the sibling handle.
C13_Witness ==
    \E t \in DOMAIN pc, u \in DOMAIN pc :
        /\ pc[t] = "get_mut" /\ reg[t] = 2
        /\ pc[u] = "drop" /\ rc[cur[u]] = 1

\* C14: get_mut is side-effect free on the protocol state.  Neither step of
\* a call changes a counter, a value, the handles or the allocation and freed
\* status of a cell; a call that loaded a count other than 1 returns normally
\* and hands out nothing; a call that loaded 1 hands out one &mut T and the
\* count is 1 before and after its return.
C14_GetMutSideEffectFree ==
    [][\A t \in DOMAIN pc :
          /\ (GetMutCalled(t) \/ GetMutReturned(t)) =>
                 /\ rc' = rc /\ value' = value /\ held' = held
                 /\ alloc' = alloc /\ freed' = freed /\ ones' = ones
                 /\ touched' = touched
          /\ GetMutCalled(t) => mutb' = mutb
          /\ (GetMutReturned(t) /\ reg[t] # 1) => mutb' = mutb
          /\ (GetMutReturned(t) /\ reg[t] = 1) =>
                 /\ mutb' = [mutb EXCEPT ![t][cur[t]] = mutb[t][cur[t]] + 1]
                 /\ rc[cur[t]] = 1 /\ rc'[cur[t]] = 1]_vars

\* A thread that holds both handles of a cell is inside get_mut and has
\* loaded 2: the call is about to return None.
C14_Witness ==
    \E t \in DOMAIN pc :
        /\ pc[t] = "get_mut" /\ reg[t] = 2
        /\ held[t][cur[t]] = 2 /\ rc[cur[t]] = 2 /\ value[cur[t]] = 5

\* A step is the first step of a drop of a handle of c by thread t.
DropStarted(t, c) == pc[t] = "idle" /\ pc'[t] = "drop" /\ cur'[t] = c

\* C15: drop step order.  A handle stops to exist only by the release
\* decrement, the first step of its drop, which keeps the count it found.
\* Only a drop that found 1 goes on to the acquire fence, which makes every
\* write to the value ordered before the thread, and the cell is freed only
\* by a thread that is past that fence.  A drop that found more than 1
\* returns without a fence and leaves the value and the cell alone.
C15_DropStepOrder ==
    /\ [](\A t \in Threads :
             /\ pc[t] = "drop_fenced" => (reg[t] = 1 /\ (weak => seen[t][cur[t]]))
             /\ pc[t] = "drop" => reg[t] >= 1)
    /\ [][\A t \in Threads, c \in DOMAIN rc :
             /\ held'[t][c] < held[t][c] =>
                    \/ DropStarted(t, c) /\ reg'[t] = rc[c] /\ rc'[c] = rc[c] - 1
                          /\ rcRel'[c] = (weak /\ (rcRel[c] \/ seen[t][c]))
                          /\ value' = value /\ freed' = freed /\ seen' = seen
                    \/ LiveCount(c)' = LiveCount(c)
             /\ (pc[t] = "drop" /\ cur[t] = c /\ pc'[t] # "drop") =>
                    \/ /\ reg[t] = 1 /\ pc'[t] = "drop_fenced"
                       /\ seen'[t][c] = (weak /\ (seen[t][c] \/ acq[t]))
                       /\ value' = value /\ freed' = freed
                    \/ /\ reg[t] > 1 /\ pc'[t] = "idle"
                       /\ seen' = seen /\ value' = value /\ freed' = freed
                       /\ touched' = touched
             /\ freed'[c] # freed[c] =>
                    /\ freed'[c] = freed[c] + 1
                    /\ \E u \in Threads :
                          /\ cur[u] = c /\ reg[u] = 1
                          /\ pc[u] = "drop_fenced" /\ pc'[u] = "idle"]_vars

\* The last drop is past its fence and about to free the cell; the last
\* write to the value was made by another thread.
C15_Witness ==
    \E t \in DOMAIN pc :
        /\ pc[t] = "drop_fenced" /\ reg[t] = 1
        /\ acq[t] /\ value[cur[t]] = 5
        /\ \E u \in DOMAIN pc : u # t /\ pc[u] = "drop" /\ reg[u] = 2

\* C16: clone never resurrects a cell.  Every increment of a counter, that
\* is every clone, finds a count of at least 1 on a cell that is not freed
\* and that no drop is about to free, also while drops of sibling handles run.
C16_CloneNeverResurrects ==
    [][\A c \in DOMAIN rc :
          (IsCloneOf(c) \/ (alloc[c] /\ rc'[c] # rc[c] /\ rc'[c] # fetch_sub(rc[c]))) =>
              /\ IsCloneOf(c)
              /\ rc[c] >= 1
              /\ freed[c] = 0 /\ freed'[c] = 0
              /\ ones[c] = 0
              /\ ~touched']_vars

\* A handle was cloned after the decrement of a sibling's drop, which has
\* not returned yet: the count went from 2 to 1 and back to 2.
C16_Witness ==
    \E c \in DOMAIN rc, t \in DOMAIN pc, u \in DOMAIN pc :
        /\ t # u
        /\ pc[u] = "drop" /\ cur[u] = c /\ reg[u] = 2
        /\ held[t][c] = 2 /\ rc[c] = 2 /\ freed[c] = 0

\* What a cell is: its count, its value, and whether it is allocated or freed.
CellState(c) == <<rc[c], value[c], alloc[c], freed[c]>>

\* The handles of cell c, by owner, and the &mut T lent from them.
HandlesOf(c) == [t \in DOMAIN held |-> <<held[t][c], mutb[t][c]>>]

\* C17: independence of instances.  Ark::new makes a cell that was never
\* handed out before, with count 1 and one handle.  Every step changes the
\* state or the handles of at most one cell; that cell is one the stepping
\* thread holds a handle of or is in an operation on (or the new one); and a
\* count only changes by 1, up with one more handle and down with one less.
C17_IndependenceOfInstances ==
    [][\A c \in DOMAIN rc :
          /\ (alloc'[c] /\ ~alloc[c]) =>
                 /\ rc[c] = 0 /\ freed[c] = 0 /\ LiveCount(c) = 0
                 /\ rc'[c] = 1 /\ LiveCount(c)' = 1 /\ freed'[c] = 0
          /\ (CellState(c)' # CellState(c) \/ HandlesOf(c)' # HandlesOf(c)) =>
                 /\ \A d \in DOMAIN rc \ {c} :
                        CellState(d)' = CellState(d) /\ HandlesOf(d)' = HandlesOf(d)
                 /\ \E t \in DOMAIN pc :
                        \/ held[t][c] > 0
                        \/ cur[t] = c /\ pc'[t] # pc[t]
                        \/ ~alloc[c] /\ held'[t][c] = 1
          /\ (alloc[c] /\ LiveCount(c)' > LiveCount(c)) => rc'[c] = rc[c] + 1
          /\ (alloc[c] /\ LiveCount(c)' < LiveCount(c)) => rc'[c] = rc[c] - 1
          /\ (alloc[c] /\ LiveCount(c)' = LiveCount(c)) => rc'[c] = rc[c]]_vars

\* Two cells were made with different values; the first one has been freed
\* while the second one has two handles and its own value.
C17_Witness ==
    \E c \in DOMAIN rc, d \in DOMAIN rc :
        /\ c # d
        /\ alloc[c] /\ freed[c] = 1 /\ rc[c] = 0
        /\ alloc[d] /\ freed[d] = 0 /\ rc[d] = 2 /\ value[d] = 5

\* main has made the vault and has not yet dropped v.
MainHoldsV == alloc[TheCell] /\ prog["main"] # "exit"

\* C18: the counts of the demonstration.  From Ark::new to the drop of v the
\* count is 1, 2 or 3; the drop of a spawned thread finds 2 or 3, never 1,
\* so no spawned thread gets to the fence or frees; the count is 1 while the
\* two assertions run; the cell is not freed before main drops v, that drop
\* finds 1, and once it has returned the cell has been freed exactly once.
C18_DemonstrationCounts ==
    /\ MainHoldsV => (rc[TheCell] \in 1..3 /\ freed[TheCell] = 0 /\ ones[TheCell] = 0)
    /\ \A t \in Spawned :
          /\ pc[t] \in {"idle", "drop"}
          /\ pc[t] = "drop" => reg[t] \in {2, 3}
    /\ prog["main"] \in {"assert17", "check17", "found17", "assert42", "check42", "found42", "drop"} =>
          (rc[TheCell] = 1 /\ LiveCount(TheCell) = 1 /\ held["main"][TheCell] = 1)
    /\ freed[TheCell] <= 1 /\ ones[TheCell] <= 1 /\ ~touched
    /\ pc["main"] \in {"drop", "drop_fenced"} => (reg["main"] = 1 /\ rc[TheCell] = 0)
    /\ (prog["main"] = "exit" /\ pc["main"] = "idle") => (freed[TheCell] = 1 /\ ones[TheCell] = 1)

\* main has dropped v and returned: the cell is freed, after both threads
\* dropped their clones.
C18_Witness ==
    /\ prog["main"] = "exit" /\ pc["main"] = "idle"
    /\ freed[TheCell] = 1 /\ rc[TheCell] = 0
    /\ \A t \in Spawned : Finished(t)

\* C19: clone has no overflow guard.  Every clone stores the count plus 1
\* modulo 2^w and returns the new handle; a clone that finds the largest
\* value stores 0 and returns like any other, and the count is then not the
\* number of handles that were made and never dropped.
C19_CloneOverflowWraps ==
    [][\A c \in DOMAIN rc :
          IsCloneOf(c) =>
              /\ rc'[c] = (rc[c] + 1) % RcModulus
              /\ pc' = pc /\ freed' = freed /\ value' = value
              /\ rc[c] = RcModulus - 1 =>
                     /\ rc'[c] = 0
                     /\ Outstanding(c)' = Outstanding(c) + 1
                     /\ Outstanding(c)' > 0
                     /\ rc'[c] # Outstanding(c)']_vars

\* The count has wrapped to 0 while the cell is not freed and handles of it
\* are held: as many handles were made and never dropped as the width counts.
C19_Witness ==
    /\ rc[TheCell] = 0 /\ freed[TheCell] = 0 /\ ones[TheCell] = 0
    /\ LiveCount(TheCell) >= 2
    /\ Outstanding(TheCell) = RcModulus

====
